---- MODULE Spec2Model ----
(***************************************************************************)
(* Model of the Punish cog (src/Punish/Punish.py): the punishment records  *)
(* (self.json), the restriction role, and the two-tier expiration          *)
(* scheduler (self.enqueued, self.pending, self.queue and the timers armed  *)
(* on the event loop).                                                      *)
(*                                                                         *)
(* Time is counted in half seconds, so that the 0.5 s pad of line 745 is   *)
(* an integer.  The module-level names the file uses without importing     *)
(* them (re, inspect, datetime) are taken to resolve to the standard       *)
(* modules.  Under Spec each handler runs to completion in one step; the   *)
(* coroutine spawned by execute_unpunish is run as part of the step that   *)
(* spawns it.  RaceSpec and PairSpec split _punish_cmd_common and on_load  *)
(* at the platform calls they await.                                       *)
(***************************************************************************)
EXTENDS Integers, Sequences, FiniteSets, Bags, TLC

VARIABLES
    now,        \* time.time(), in half seconds
    json,       \* self.json[sid][mid]: key -> [start, until, reason]
    roles,      \* keys whose member carries the restriction role
    present,    \* keys whose member server.get_member resolves
    enqueued,   \* self.enqueued
    pending,    \* self.pending: key -> [due, live] (the TimerHandle)
    heap,       \* self.queue, as the sequence get_nowait() would return
    loose,      \* timers armed on the loop that self.pending does not hold
    up,         \* the cog is loaded (the process runs)
    last,       \* the operation that ran last: its key, inputs, result, platform calls
    cancelled,  \* keys whose cancel returned True, not scheduled since
    inflight,   \* the coroutines suspended at an await: what each still has to do
    voice       \* voice state: who is in a channel, who is muted, the unmutes owed

vars == <<now, json, roles, present, enqueued, pending, heap, loose, up, last, cancelled,
          inflight, voice>>

(* ---------------------------- constants -------------------------------- *)

QUEUE_TIME_CUTOFF == 30

\* until is None (indefinite); time.time() and every until are positive
None == 0

\* the + 0.5 of `until = now + duration + 0.5`, in half seconds
PAD == 1

Sec(n) == 2 * n

\* no reason given (None), or none stored
NoReason == ""

\* nobody is in a voice channel, nobody is muted, no unmute is owed
NoVoice == [channel |-> {}, mute |-> {}, unmute |-> {}, pending_unmute |-> {}, owed |-> {}]

(* ------------------------------ bounds --------------------------------- *)

Servers == {1}
Members == {1}
Keys == Servers \X Members

\* durations a moderator passes to the command, in seconds
Durations == {10, 30}

\* reasons a moderator passes to the command
Reasons == {"spam", "flood"}

\* the clock advances by 20 s at a time, MaxTicks times at most
TickStep == Sec(20)
MaxTicks == 3
MaxTime == TickStep * (MaxTicks + 1)

\* entries (queue items and armed timers) the scheduler holds at most
MaxEntries == 2

(* ------------------------------ helpers -------------------------------- *)

\* a dict without key k (dict.pop / del)
Drop(f, k) == [x \in DOMAIN f \ {k} |-> f[x]]

\* a dict with f[k] = v
Put(f, k, v) == [x \in DOMAIN f \cup {k} |-> IF x = k THEN v ELSE f[x]]

\* tuple order of the queue items (run_at, sid, mid)
ItemLess(a, b) ==
    \/ a[1] < b[1]
    \/ a[1] = b[1] /\ a[2] < b[2]
    \/ a[1] = b[1] /\ a[2] = b[2] /\ a[3] < b[3]

\* PriorityQueue.put: the items stay in the order get() returns them
RECURSIVE HeapPut(_, _)
HeapPut(q, item) ==
    IF q = <<>> THEN <<item>>
    ELSE IF ItemLess(item, Head(q)) THEN <<item>> \o q
    ELSE <<Head(q)>> \o HeapPut(Tail(q), item)

ItemKey(item) == <<item[2], item[3]>>

\* the loop of cancel_queue_event over the queue: get_nowait until an item of
\* k turns up; the items taken out before it are collected in events
RECURSIVE Drain(_, _, _)
Drain(q, k, events) ==
    IF q = <<>> THEN [removed |-> FALSE, events |-> events, rest |-> q]
    ELSE IF ItemKey(Head(q)) = k
    THEN [removed |-> TRUE, events |-> events, rest |-> Tail(q)]
    ELSE Drain(Tail(q), k, Append(events, Head(q)))

\* for item in events: self.queue.put_nowait(item)
RECURSIVE PutAll(_, _)
PutAll(q, events) ==
    IF events = <<>> THEN q ELSE PutAll(HeapPut(q, Head(events)), Tail(events))

\* the mutable state the handlers work on, as one value; calls collects the
\* platform calls (bot.add_roles, bot.remove_roles, bot.send_message) of a
\* handler, fired the runs of execute_queue_event it makes, raising the keys
\* for which execute_unpunish raises in this step
State ==
    [json |-> json, roles |-> roles, present |-> present, enqueued |-> enqueued,
     pending |-> pending, heap |-> heap, loose |-> loose, calls |-> {}, fired |-> {},
     raising |-> {}]

\* a platform call on the member of k
Call(s, name, k) == [s EXCEPT !.calls = @ \cup {<<name, k>>}]

(* ----------------------------- scheduler ------------------------------- *)

\* Punish._unpunish_data
_unpunish_data(s, k) ==
    IF k \in DOMAIN s.json THEN [s EXCEPT !.json = Drop(s.json, k)] ELSE s

\* cancel_queue_event without the put_nowait of the drained items
cancel_queue_event_drops(s, k) ==
    IF k \in DOMAIN s.pending
    THEN [st |-> [s EXCEPT !.pending = Drop(s.pending, k)], ret |-> TRUE]
    ELSE LET d == Drain(s.heap, k, <<>>) IN
         [st |-> [s EXCEPT !.heap = d.rest], ret |-> d.removed]

\* Punish.cancel_queue_event: [st, ret]
cancel_queue_event(s, k) ==
    IF k \in DOMAIN s.pending
    THEN [st |-> [s EXCEPT !.pending = Drop(s.pending, k)], ret |-> TRUE]
    ELSE LET d == Drain(s.heap, k, <<>>) IN
         [st |-> [s EXCEPT !.heap = PutAll(d.rest, d.events)], ret |-> d.removed]

\* Punish._unpunish (role found): the record goes, the entry is cancelled,
\* the role is removed unless remove_role is False, the member is told
\* unless quiet
_unpunish(s, k, remove_role, quiet) ==
    LET c == cancel_queue_event(_unpunish_data(s, k), k)
        s1 == IF remove_role
              THEN Call([c.st EXCEPT !.roles = @ \ {k}], "remove_roles", k)
              ELSE c.st
    IN IF quiet THEN s1 ELSE Call(s1, "send_message", k)

\* Punish.execute_unpunish: [st, ret]
execute_unpunish(s, k) ==
    IF k \in s.present
    THEN [st |-> _unpunish(s, k, TRUE, FALSE), ret |-> TRUE]
    ELSE [st |-> s, ret |-> FALSE]

\* Punish.execute_queue_event: [st, ret]; when execute_unpunish raises, the
\* exception is logged and the result is None
execute_queue_event(s, k) ==
    LET s1 == [s EXCEPT !.enqueued = @ \ {k}] IN
    IF k \in s.raising THEN [st |-> s1, ret |-> FALSE]
    ELSE execute_unpunish(s1, k)

\* the scheduler runs the callback of the entry of k due at `due`, at time t,
\* from the tier it is in: "now" (put_queue_event), "timer" or "queue"
Invoke(s, k, due, t, tier) ==
    execute_queue_event(
        [s EXCEPT !.fired = @ \cup {[key |-> k, due |-> due, at |-> t, tier |-> tier]}], k)

\* call_later on self.pending[k]: a handle that was still armed stays on the loop
Arm(s, k, run_at) ==
    LET old == IF k \in DOMAIN s.pending /\ s.pending[k].live
               THEN SetToBag({<<s.pending[k].due, k[1], k[2]>>})
               ELSE EmptyBag
    IN [s EXCEPT !.pending = Put(@, k, [due |-> run_at, live |-> TRUE]),
                 !.loose = @ (+) old]

\* a put_queue_event that puts every entry that is not overdue in the queue
put_queue_event_queues_all(s, t, run_at, k) ==
    IF k \in s.enqueued THEN s
    ELSE LET s1 == [s EXCEPT !.enqueued = @ \cup {k}] IN
         IF run_at - t < 0 THEN Invoke(s1, k, run_at, t, "now").st
         ELSE [s1 EXCEPT !.heap = HeapPut(@, <<run_at, k[1], k[2]>>)]

\* Punish.put_queue_event at time t
put_queue_event(s, t, run_at, k) ==
    IF k \in s.enqueued THEN s
    ELSE LET s1 == [s EXCEPT !.enqueued = @ \cup {k}] IN
         IF run_at - t < 0 THEN Invoke(s1, k, run_at, t, "now").st
         ELSE IF run_at - t < Sec(QUEUE_TIME_CUTOFF) THEN Arm(s1, k, run_at)
         ELSE [s1 EXCEPT !.heap = HeapPut(@, <<run_at, k[1], k[2]>>)]

\* Punish.schedule_unpunish
schedule_unpunish(s, t, until, k) == put_queue_event(s, t, until, k)

\* a process_queue_event that runs the callback of every item inside the
\* cutoff instead of arming a timer for it
process_queue_event_eager(s, t) ==
    LET item == Head(s.heap)
        k == ItemKey(item)
        s1 == [s EXCEPT !.heap = Tail(@)]
    IN IF item[1] - t < Sec(QUEUE_TIME_CUTOFF)
       THEN LET e == Invoke(s1, k, item[1], t, "queue") IN
            IF e.ret THEN e.st
            ELSE [e.st EXCEPT !.heap = HeapPut(@, item)]
       ELSE s

\* Punish.process_queue_event at time t, the queue not empty.
\* `next_time, *args = item` makes args a list, so `self.pending[args] = ...`
\* raises TypeError after call_later has armed the timer: the item has left
\* the queue, the timer runs, and self.pending never holds its handle.
process_queue_event(s, t) ==
    LET item == Head(s.heap)
        k == ItemKey(item)
        s1 == [s EXCEPT !.heap = Tail(@)]
        diff == item[1] - t
    IN IF diff < 0
       THEN LET e == Invoke(s1, k, item[1], t, "queue") IN
            IF e.ret THEN e.st
            ELSE [e.st EXCEPT !.heap = HeapPut(@, item)]
       ELSE IF diff < Sec(QUEUE_TIME_CUTOFF)
       THEN [s1 EXCEPT !.loose = @ (+) SetToBag({item})]
       ELSE s

\* the entries of s that can still fire for k: queue items and armed timers
LiveDue(s, k) ==
    {s.heap[i][1] : i \in {j \in DOMAIN s.heap : ItemKey(s.heap[j]) = k}}
    \cup {item[1] : item \in {x \in BagToSet(s.loose) : ItemKey(x) = k}}
    \cup (IF k \in DOMAIN s.pending /\ s.pending[k].live THEN {s.pending[k].due} ELSE {})

\* how many entries of s can still fire for k
LiveOf(s, k) ==
    Cardinality({j \in DOMAIN s.heap : ItemKey(s.heap[j]) = k})
    + BagCardinality([x \in {y \in BagToSet(s.loose) : ItemKey(y) = k} |-> s.loose[x]])
    + (IF k \in DOMAIN s.pending /\ s.pending[k].live THEN 1 ELSE 0)

\* how many entries of s can still fire
LiveCount(s) ==
    Len(s.heap) + BagCardinality(s.loose)
    + Cardinality({k \in DOMAIN s.pending : s.pending[k].live})

(* ------------------------------ actions -------------------------------- *)

NoKey == <<0, 0>>

\* the history of one operation
Op(op, k, ret, arg, why, calls) ==
    [op |-> op, key |-> k, ret |-> ret, arg |-> arg, why |-> why, calls |-> calls,
     fired |-> {}]

\* the history of an operation that left the handlers' state s
OpOf(op, k, ret, arg, why, s) ==
    [op |-> op, key |-> k, ret |-> ret, arg |-> arg, why |-> why, calls |-> s.calls,
     fired |-> s.fired]

Init ==
    /\ now = TickStep
    /\ json = <<>>
    /\ roles = {}
    /\ present = Keys
    /\ enqueued = {}
    /\ pending = <<>>
    /\ heap = <<>>
    /\ loose = EmptyBag
    /\ up = TRUE
    /\ last = Op("init", NoKey, FALSE, None, NoReason, {})
    /\ cancelled = {}
    /\ inflight = {}
    /\ voice = NoVoice

Commit(s) ==
    /\ LiveCount(s) <= MaxEntries
    /\ json' = s.json
    /\ roles' = s.roles
    /\ present' = s.present
    /\ enqueued' = s.enqueued
    /\ pending' = s.pending
    /\ heap' = s.heap
    /\ loose' = s.loose

\* what the cancel_queue_event call inside _unpunish returns
CancelRet(s, k) == cancel_queue_event(_unpunish_data(s, k), k).ret

Noted(s, k) == IF CancelRet(s, k) THEN cancelled \cup {k} ELSE cancelled

\* a renewal that restarts the punishment: start is the time of the call
punish_record_restart(s, k, t, until, r) ==
    [start |-> t, until |-> until,
     reason |-> IF r # NoReason THEN r
                ELSE IF k \in DOMAIN s.json THEN s.json[k].reason ELSE NoReason]

\* a record whose until is the length of the punishment, not its end
punish_record_relative(s, k, t, until, r) ==
    [start |-> IF k \in DOMAIN s.json THEN s.json[k].start ELSE t,
     until |-> IF until = None THEN None ELSE until - t,
     reason |-> IF r # NoReason THEN r
                ELSE IF k \in DOMAIN s.json THEN s.json[k].reason ELSE NoReason]

\* the record Punish._punish_cmd_common stores at time t: start and, when no
\* reason is given, reason are those of the current record
punish_record(s, k, t, until, r) ==
    [start |-> IF k \in DOMAIN s.json THEN s.json[k].start ELSE t,
     until |-> until,
     reason |-> IF r # NoReason THEN r
                ELSE IF k \in DOMAIN s.json THEN s.json[k].reason ELSE NoReason]

\* the end of a punishment of d seconds that starts at t, None for 'forever'
Until(t, d) == IF d = None THEN None ELSE t + Sec(d) + PAD

\* Punish._punish_cmd_common, lines 825-834: the record is stored, then
\* bot.add_roles is awaited
punish_begin(s, k, t, until, r) ==
    Call([s EXCEPT !.json = Put(@, k, punish_record(s, k, t, until, r)),
                   !.roles = @ \cup {k}],
         "add_roles", k)

\* Punish._punish_cmd_common, lines 839-843, at time t: save and schedule
punish_end(s, k, t, until) ==
    IF until # None THEN schedule_unpunish(s, t, until, k) ELSE s

\* Punish._punish_cmd_common with a duration of d seconds, None for 'forever',
\* and reason r, NoReason when the moderator gives none
_punish_cmd_common(k, d, r) ==
    /\ up
    /\ k \in present
    /\ LET until == Until(now, d)
           s2 == punish_end(punish_begin(State, k, now, until, r), k, now, until)
       IN /\ Commit(s2)
          /\ cancelled' = IF until # None THEN cancelled \ {k} ELSE cancelled
          /\ last' = OpOf("punish", k, TRUE, d, r, s2)
    /\ UNCHANGED <<now, up, inflight, voice>>

\* why Punish._punish_cmd_common refuses a request: the author does not
\* outrank the member (710), the member is the bot (713), the duration is
\* below 1 second (726) or does not parse (729), the role cannot be found or
\* created (734) or is not below the bot's top role (737)
Refusals == {"hierarchy", "bot", "short", "unparseable", "norole", "rolehigh"}

\* a _punish_cmd_common that looks for the role after it has stored the record
punish_refused_late(k, why) ==
    /\ up
    /\ k \in present
    /\ Commit(IF why \in {"norole", "rolehigh"}
              THEN [State EXCEPT !.json = Put(@, k, punish_record(State, k, now, None, NoReason))]
              ELSE State)
    /\ last' = Op("refused", k, FALSE, None, why, {})
    /\ UNCHANGED <<now, up, cancelled, inflight, voice>>

\* Punish._punish_cmd_common refuses the request: it returns at 712, 715,
\* 728, 731, 735 or 739, before the record is read for writing
punish_refused(k, why) ==
    /\ up
    /\ k \in present
    /\ Commit(State)
    /\ last' = Op("refused", k, FALSE, None, why, {})
    /\ UNCHANGED <<now, up, cancelled, inflight, voice>>

\* Punish._punish_cmd_common when bot.add_roles raises (834): the record of
\* 825-832 is in self.json, lines 836-848 do not run
punish_add_roles_fails(k, d, r) ==
    /\ up
    /\ k \in present
    /\ LET rec == punish_record(State, k, now, Until(now, d), r) IN
       /\ Commit([State EXCEPT !.json = Put(@, k, rec)])
       /\ last' = Op("addfailed", k, FALSE, d, r, {<<"add_roles", k>>})
    /\ UNCHANGED <<now, up, cancelled, inflight, voice>>

\* a PE that looks at the record only: nothing happens without one
PE_needs_record(k) ==
    /\ up
    /\ k \in present
    /\ IF k \in DOMAIN json
       THEN LET s2 == _unpunish(State, k, TRUE, FALSE) IN
            /\ Commit(s2)
            /\ cancelled' = Noted(State, k)
            /\ last' = Op("unpunish", k, CancelRet(State, k), None, NoReason, s2.calls)
       ELSE /\ last' = Op("norole", k, FALSE, None, NoReason, {})
            /\ UNCHANGED <<json, roles, present, enqueued, pending, heap, loose, cancelled>>
    /\ UNCHANGED <<now, up, inflight, voice>>

\* what Punish.PE leaves of s
PE_effect(s, k) ==
    IF k \in s.roles THEN _unpunish(s, k, TRUE, FALSE)
    ELSE IF k \in DOMAIN s.json THEN [s EXCEPT !.json = Drop(@, k)]
    ELSE s

\* Punish.PE, the command that ends a punishment early
PE(k) ==
    /\ up
    /\ k \in present
    /\ Commit(PE_effect(State, k))
    /\ IF k \in roles
       THEN /\ cancelled' = Noted(State, k)
            /\ last' = Op("unpunish", k, CancelRet(State, k), None, NoReason,
                          PE_effect(State, k).calls)
       ELSE IF k \in DOMAIN json
       THEN /\ last' = Op("dropdata", k, FALSE, None, NoReason, {})
            /\ UNCHANGED cancelled
       ELSE /\ last' = Op("norole", k, FALSE, None, NoReason, {})
            /\ UNCHANGED cancelled
    /\ UNCHANGED <<now, up, inflight, voice>>

\* an on_member_update that adopts a role added by hand: it stores an
\* indefinite record for the member
on_member_update_adopts(k) ==
    /\ k \in present
    /\ IF k \in roles
       THEN LET s1 == [State EXCEPT !.roles = @ \ {k}] IN
            IF up /\ k \in DOMAIN json
            THEN LET s2 == _unpunish(s1, k, FALSE, FALSE) IN
                 /\ Commit(s2)
                 /\ cancelled' = Noted(s1, k)
                 /\ last' = Op("roleremoved", k, CancelRet(s1, k), None, NoReason, s2.calls)
            ELSE /\ Commit(s1)
                 /\ last' = Op("roleedit", k, FALSE, None, NoReason, {})
                 /\ UNCHANGED cancelled
       ELSE /\ Commit([State EXCEPT !.roles = @ \cup {k},
                                    !.json = IF up /\ k \notin DOMAIN json
                                             THEN Put(@, k, punish_record(State, k, now, None, NoReason))
                                             ELSE @])
            /\ last' = Op("roleedit", k, FALSE, None, NoReason, {})
            /\ UNCHANGED cancelled
    /\ UNCHANGED <<now, up, inflight, voice>>

\* a moderator adds or removes the role by hand, then Punish.on_member_update
\* when the cog is loaded
on_member_update(k) ==
    /\ k \in present
    /\ IF k \in roles
       THEN LET s1 == [State EXCEPT !.roles = @ \ {k}] IN
            IF up /\ k \in DOMAIN json
            THEN LET s2 == _unpunish(s1, k, FALSE, FALSE) IN
                 /\ Commit(s2)
                 /\ cancelled' = Noted(s1, k)
                 /\ last' = Op("roleremoved", k, CancelRet(s1, k), None, NoReason, s2.calls)
            ELSE /\ Commit(s1)
                 /\ last' = Op("roleedit", k, FALSE, None, NoReason, {})
                 /\ UNCHANGED cancelled
       ELSE /\ Commit([State EXCEPT !.roles = @ \cup {k}])
            /\ last' = Op("roleedit", k, FALSE, None, NoReason, {})
            /\ UNCHANGED cancelled
    /\ UNCHANGED <<now, up, inflight, voice>>

\* the member leaves the server; the cog has no handler for it
MemberLeave(k) ==
    /\ k \in present
    /\ Commit([State EXCEPT !.present = @ \ {k}, !.roles = @ \ {k}])
    /\ last' = Op("leave", k, FALSE, None, NoReason, {})
    /\ UNCHANGED <<now, up, cancelled, inflight, voice>>

\* the member comes back without roles, then Punish.on_member_join when the
\* cog is loaded; `until - time.time()` raises TypeError when until is None
on_member_join(k) ==
    /\ k \notin present
    /\ LET s1 == [State EXCEPT !.present = @ \cup {k}]
           rearm == /\ up
                    /\ k \in DOMAIN json
                    /\ json[k].until # None
                    /\ json[k].until - now > 0
           s2 == schedule_unpunish(Call([s1 EXCEPT !.roles = @ \cup {k}], "add_roles", k),
                                   now, json[k].until, k)
       IN IF rearm
          THEN /\ Commit(s2)
               /\ cancelled' = cancelled \ {k}
               /\ last' = OpOf("rejoin", k, TRUE, None, NoReason, s2)
          ELSE /\ Commit(s1)
               /\ last' = Op("join", k, FALSE, None, NoReason, {})
               /\ UNCHANGED cancelled
    /\ UNCHANGED <<now, up, inflight, voice>>

\* the member is banned (and so leaves), then Punish.on_member_ban when the
\* cog is loaded
on_member_ban(k) ==
    /\ k \in present
    /\ LET s1 == [State EXCEPT !.present = @ \ {k}, !.roles = @ \ {k}] IN
       IF up /\ k \in DOMAIN json
       THEN LET s2 == _unpunish(s1, k, FALSE, TRUE) IN
            /\ Commit(s2)
            /\ cancelled' = Noted(s1, k)
            /\ last' = Op("ban", k, CancelRet(s1, k), None, NoReason, s2.calls)
       ELSE /\ Commit(s1)
            /\ last' = Op("banned", k, FALSE, None, NoReason, {})
            /\ UNCHANGED cancelled
    /\ UNCHANGED <<now, up, inflight, voice>>

\* what a run e of execute_queue_event(k) on s leaves in the history
Fired(s, k, e) ==
    /\ cancelled' = IF k \in s.present
                    THEN Noted([s EXCEPT !.enqueued = @ \ {k}], k)
                    ELSE cancelled
    /\ last' = OpOf("fire", k, e.ret, None, NoReason, e.st)

\* the timer held in self.pending[k] comes due: the handle stays in the dict
TimerFires(k) ==
    /\ up
    /\ k \in DOMAIN pending
    /\ pending[k].live
    /\ now >= pending[k].due
    /\ LET s1 == [State EXCEPT !.pending[k].live = FALSE]
           e == Invoke(s1, k, pending[k].due, now, "timer")
       IN Commit(e.st) /\ Fired(s1, k, e)
    /\ UNCHANGED <<now, up, inflight, voice>>

\* a timer that self.pending does not hold comes due
LooseTimerFires(item) ==
    /\ up
    /\ item \in BagToSet(loose)
    /\ now >= item[1]
    /\ LET s1 == [State EXCEPT !.loose = @ (-) SetToBag({item})]
           e == Invoke(s1, ItemKey(item), item[1], now, "timer")
       IN Commit(e.st) /\ Fired(s1, ItemKey(item), e)
    /\ UNCHANGED <<now, up, inflight, voice>>

\* one call of process_queue_event by the loop of on_load
QueueLoop ==
    /\ up
    /\ heap # <<>>
    /\ LET item == Head(heap)
           k == ItemKey(item)
           s1 == [State EXCEPT !.heap = Tail(@)]
           s2 == process_queue_event(State, now)
       IN /\ Commit(s2)
          /\ IF s2.fired # {}
             THEN Fired(s1, k, [st |-> s2, ret |-> execute_queue_event(s1, k).ret])
             ELSE /\ last' = Op("loop", k, item[1] - now < Sec(QUEUE_TIME_CUTOFF),
                                None, NoReason, {})
                  /\ UNCHANGED cancelled
    /\ UNCHANGED <<now, up, inflight, voice>>

\* the process stops (Punish.__unload, or a crash): the scheduler lives in
\* memory only, self.json is on disk
Shutdown ==
    /\ up
    /\ up' = FALSE
    /\ enqueued' = {}
    /\ pending' = <<>>
    /\ heap' = <<>>
    /\ loose' = EmptyBag
    /\ cancelled' = {}
    /\ last' = Op("stop", NoKey, FALSE, None, NoReason, {})
    /\ inflight' = {}
    /\ UNCHANGED <<now, json, roles, present, voice>>

\* an on_load that leaves overdue records to the scheduler loop
on_load_member_skips_overdue(s, t, k) ==
    LET until == s.json[k].until IN
    IF until # None /\ until - t < 0
    THEN s
    ELSE IF k \in s.present
    THEN LET s1 == IF k \notin s.roles
                   THEN Call([s EXCEPT !.roles = @ \cup {k}], "add_roles", k)
                   ELSE s
         IN IF until # None THEN schedule_unpunish(s1, t, until, k) ELSE s1
    ELSE s

\* an on_load that re-arms the scheduler without looking at the role
on_load_member_keeps_roles(s, t, k) ==
    LET until == s.json[k].until IN
    IF until # None /\ until - t < 0
    THEN IF k \in s.present
         THEN _unpunish(s, k, TRUE, FALSE)
         ELSE [s EXCEPT !.json = Drop(@, k)]
    ELSE IF k \in s.present
    THEN IF until # None THEN schedule_unpunish(s, t, until, k) ELSE s
    ELSE s

\* an on_load that drops every record whose member is gone
on_load_member_drops_absent(s, t, k) ==
    LET until == s.json[k].until IN
    IF k \notin s.present
    THEN [s EXCEPT !.json = Drop(@, k)]
    ELSE IF until # None /\ until - t < 0
    THEN _unpunish(s, k, TRUE, FALSE)
    ELSE LET s1 == IF k \notin s.roles
                   THEN Call([s EXCEPT !.roles = @ \cup {k}], "add_roles", k)
                   ELSE s
         IN IF until # None THEN schedule_unpunish(s1, t, until, k) ELSE s1

\* Punish.on_load for one record, at time t
on_load_member(s, t, k) ==
    LET until == s.json[k].until IN
    IF until # None /\ until - t < 0
    THEN IF k \in s.present
         THEN _unpunish(s, k, TRUE, FALSE)
         ELSE [s EXCEPT !.json = Drop(@, k)]
    ELSE IF k \in s.present
    THEN LET s1 == IF k \notin s.roles
                   THEN Call([s EXCEPT !.roles = @ \cup {k}], "add_roles", k)
                   ELSE s
         IN IF until # None THEN schedule_unpunish(s1, t, until, k) ELSE s1
    ELSE s

\* the loop of Punish.on_load over the records ks
RECURSIVE on_load_pass(_, _, _)
on_load_pass(s, t, ks) ==
    IF ks = {} THEN s
    ELSE LET k == CHOOSE x \in ks : TRUE IN
         on_load_pass(on_load_member(s, t, k), t, ks \ {k})

\* the process starts: Punish.__init__ and the pass of Punish.on_load
on_load ==
    /\ ~up
    /\ up' = TRUE
    /\ LET s2 == on_load_pass(State, now, DOMAIN json) IN
       /\ Commit(s2)
       /\ last' = OpOf("load", NoKey, TRUE, None, NoReason, s2)
    /\ UNCHANGED <<now, cancelled, inflight, voice>>

Tick ==
    /\ now < MaxTime
    /\ now' = now + TickStep
    /\ last' = Op("tick", NoKey, FALSE, None, NoReason, {})
    /\ UNCHANGED <<json, roles, present, enqueued, pending, heap, loose, up, cancelled, inflight, voice>>

\* everything but a role edit by hand and a platform call that fails
NoEditNext ==
    \/ \E k \in Keys, d \in Durations \cup {None}, r \in Reasons \cup {NoReason} :
          _punish_cmd_common(k, d, r)
    \/ \E k \in Keys : PE(k)
    \/ \E k \in Keys : MemberLeave(k)
    \/ \E k \in Keys : on_member_join(k)
    \/ \E k \in Keys : on_member_ban(k)
    \/ \E k \in Keys : TimerFires(k)
    \/ \E item \in BagToSet(loose) : LooseTimerFires(item)
    \/ QueueLoop
    \/ Shutdown
    \/ on_load
    \/ Tick

Next ==
    \/ NoEditNext
    \/ \E k \in Keys : on_member_update(k)

Spec == Init /\ [][Next]_vars

\* no moderator edits the role by hand and no platform call fails
NoEditSpec == Init /\ [][NoEditNext]_vars

\* the event loop runs the timers that are due and the loop of on_load keeps
\* calling process_queue_event; the clock runs up to MaxTime
FairSpec ==
    /\ Spec
    /\ WF_vars(Tick)
    /\ WF_vars(QueueLoop)
    /\ \A k \in Keys : WF_vars(TimerFires(k))
    /\ WF_vars(\E item \in BagToSet(loose) : LooseTimerFires(item))

(* ---------------- punish refused, add_roles failing -------------------- *)

\* the commands and the scheduler, with requests that are refused and
\* bot.add_roles raising
FaultNext ==
    \/ \E k \in Keys, d \in Durations \cup {None}, r \in Reasons \cup {NoReason} :
          _punish_cmd_common(k, d, r)
    \/ \E k \in Keys, why \in Refusals : punish_refused(k, why)
    \/ \E k \in Keys, d \in Durations \cup {None} : punish_add_roles_fails(k, d, NoReason)
    \/ \E k \in Keys : PE(k)
    \/ \E k \in Keys : TimerFires(k)
    \/ \E item \in BagToSet(loose) : LooseTimerFires(item)
    \/ QueueLoop
    \/ Tick

FaultSpec == Init /\ [][FaultNext]_vars

(* ------------------- punish split at its await ------------------------- *)

\* Punish._punish_cmd_common up to `await self.bot.add_roles` (834): the
\* record is stored, the call is on its way, the coroutine is suspended
PunishBegin(k, d, r) ==
    /\ up
    /\ k \in present
    /\ inflight = {}
    /\ LET until == Until(now, d)
           s1 == punish_begin(State, k, now, until, r)
       IN /\ Commit(s1)
          /\ inflight' = {[op |-> "punish", key |-> k, d |-> d, r |-> r,
                           until |-> until, t0 |-> now, s0 |-> State]}
          /\ last' = OpOf("punishing", k, FALSE, d, r, s1)
    /\ UNCHANGED <<now, up, cancelled, voice>>

\* Punish._punish_cmd_common resumes after add_roles: lines 836-848
PunishEnd ==
    \E c \in inflight :
        /\ c.op = "punish"
        /\ LET s2 == punish_end(State, c.key, now, c.until) IN
           /\ Commit(s2)
           /\ cancelled' = IF c.until # None THEN cancelled \ {c.key} ELSE cancelled
           /\ last' = OpOf("punish", c.key, TRUE, c.d, c.r, s2)
        /\ inflight' = inflight \ {c}
        /\ UNCHANGED <<now, up, voice>>

\* punish runs as two steps; while it is suspended one other handler may run
\* on the key, PE or the timer of the key, and the clock may move
RaceNext ==
    \/ \E k \in Keys, d \in Durations \cup {None} : PunishBegin(k, d, NoReason)
    \/ PunishEnd
    \/ \E k \in Keys : (inflight = {} \/ last.op = "punishing") /\ PE(k)
    \/ \E k \in Keys : (inflight = {} \/ last.op = "punishing") /\ TimerFires(k)
    \/ \E item \in BagToSet(loose) : inflight = {} /\ LooseTimerFires(item)
    \/ inflight = {} /\ QueueLoop
    \/ Tick

RaceSpec == Init /\ [][RaceNext]_vars

(* ------------------- two members, on_load split ------------------------ *)

Pair == Servers \X {1, 2}

InitPair ==
    /\ now = TickStep
    /\ json = <<>>
    /\ roles = {}
    /\ present = Pair
    /\ enqueued = {}
    /\ pending = <<>>
    /\ heap = <<>>
    /\ loose = EmptyBag
    /\ up = TRUE
    /\ last = Op("init", NoKey, FALSE, None, NoReason, {})
    /\ cancelled = {}
    /\ inflight = {}
    /\ voice = NoVoice

\* the pass of on_load is under way
Loading == \E c \in inflight : c.op = "load"

\* a loop that is started on its own, next to the pass
LoopStarted_at_once == up

\* the `while True` loop of on_load runs: line 605 comes after the pass
LoopStarted == up /\ ~Loading

\* the process starts: Punish.__init__, then on_load begins its pass over a
\* copy of the records (559, 574)
LoadBegin ==
    /\ ~up
    /\ up' = TRUE
    /\ inflight' = {[op |-> "load", todo |-> DOMAIN json]}
    /\ last' = Op("loading", NoKey, FALSE, None, NoReason, {})
    /\ UNCHANGED <<now, json, roles, present, enqueued, pending, heap, loose, cancelled, voice>>

\* the pass handles the record of k (578-601) and suspends at its await
LoadStep(k) ==
    \E c \in inflight :
        /\ c.op = "load"
        /\ k \in c.todo
        /\ LET s2 == on_load_member(State, now, k) IN
           /\ Commit(s2)
           /\ last' = OpOf("loadstep", k, TRUE, None, NoReason, s2)
        /\ inflight' = {[c EXCEPT !.todo = @ \ {k}]}
        /\ UNCHANGED <<now, up, cancelled, voice>>

\* the pass is over: self.save() (603), the loop starts
LoadEnd ==
    \E c \in inflight :
        /\ c.op = "load"
        /\ c.todo = {}
        /\ inflight' = {}
        /\ last' = Op("load", NoKey, TRUE, None, NoReason, {})
        /\ UNCHANGED <<now, json, roles, present, enqueued, pending, heap, loose, up,
                       cancelled, voice>>

PairNext ==
    \/ \E k \in Pair, d \in Durations : ~Loading /\ _punish_cmd_common(k, d, NoReason)
    \/ \E k \in Pair : MemberLeave(k)
    \/ \E k \in Pair : TimerFires(k)
    \/ \E item \in BagToSet(loose) : LooseTimerFires(item)
    \/ LoopStarted /\ QueueLoop
    \/ Shutdown
    \/ LoadBegin
    \/ \E k \in Pair : LoadStep(k)
    \/ LoadEnd
    \/ Tick

PairSpec == InitPair /\ [][PairNext]_vars

(* ------------------ two members, the queue tier only -------------------- *)

\* a punishment long enough for its entry to start in the queue
LongDuration == QUEUE_TIME_CUTOFF

\* one call of process_queue_event in which execute_unpunish raises; arg
\* tells one such pass from the next
QueueLoopRaises ==
    /\ up
    /\ heap # <<>>
    /\ Head(heap)[1] - now < 0
    /\ LET item == Head(heap)
           k == ItemKey(item)
           s2 == process_queue_event([State EXCEPT !.raising = {k}], now)
       IN /\ Commit(s2)
          /\ last' = OpOf("raise", k, FALSE,
                          IF last.op = "raise" THEN 1 - last.arg ELSE 0, NoReason, s2)
    /\ UNCHANGED <<now, up, cancelled, inflight, voice>>

\* every punishment is LongDuration long, members leave, the loop runs
StarveNext ==
    \/ \E k \in Pair : _punish_cmd_common(k, LongDuration, NoReason)
    \/ \E k \in Pair : MemberLeave(k)
    \/ \E item \in BagToSet(loose) : LooseTimerFires(item)
    \/ QueueLoop
    \/ Tick

StarveSpec == InitPair /\ [][StarveNext]_vars

\* the loop of on_load keeps calling process_queue_event and the event loop
\* runs the timers that are due
StarveFairSpec ==
    /\ StarveSpec
    /\ WF_vars(QueueLoop)
    /\ WF_vars(\E item \in BagToSet(loose) : LooseTimerFires(item))

\* every punishment is LongDuration long, nobody leaves, execute_unpunish
\* may raise
RaiseNext ==
    \/ \E k \in Pair : _punish_cmd_common(k, LongDuration, NoReason)
    \/ \E item \in BagToSet(loose) : LooseTimerFires(item)
    \/ QueueLoop
    \/ QueueLoopRaises
    \/ Tick

RaiseSpec == InitPair /\ [][RaiseNext]_vars

\* as StarveFairSpec; a call of process_queue_event in which the callback
\* raises is a call of the loop like any other
RaiseFairSpec ==
    /\ RaiseSpec
    /\ WF_vars(QueueLoop \/ QueueLoopRaises)
    /\ WF_vars(\E item \in BagToSet(loose) : LooseTimerFires(item))

(* ------------------ two members, punish and unpunish -------------------- *)

\* two members are punished and unpunished, timers fire and the loop runs
CancelNext ==
    \/ \E k \in Pair, d \in Durations : _punish_cmd_common(k, d, NoReason)
    \/ \E k \in Pair : PE(k)
    \/ \E k \in Pair : TimerFires(k)
    \/ \E item \in BagToSet(loose) : LooseTimerFires(item)
    \/ QueueLoop
    \/ Tick

CancelSpec == InitPair /\ [][CancelNext]_vars

(* ----------------------- durations as text ----------------------------- *)

\* a text is a sequence of characters
Digit == <<"0", "1", "2", "3", "4", "5", "6", "7", "8", "9">>

IsDigit(c) == \E i \in 1..10 : Digit[i] = c

IsSpace(c) == c = " "

DigitVal(c) == CHOOSE i \in 0..9 : Digit[i + 1] = c

\* the marker of a raised BadTimeExpr
BadTimeExpr == -1

UNIT_TABLE ==
    <<[names |-> <<<<"w", "e", "e", "k", "s">>, <<"w", "k", "s">>, <<"w">>>>,
       length |-> 60 * 60 * 24 * 7],
      [names |-> <<<<"d", "a", "y", "s">>, <<"d", "y", "s">>, <<"d">>>>,
       length |-> 60 * 60 * 24],
      [names |-> <<<<"h", "o", "u", "r", "s">>, <<"h", "r", "s">>, <<"h">>>>,
       length |-> 60 * 60],
      [names |-> <<<<"m", "i", "n", "u", "t", "e", "s">>, <<"m", "i", "n", "s">>, <<"m">>>>,
       length |-> 60],
      [names |-> <<<<"s", "e", "c", "o", "n", "d", "s">>, <<"s", "e", "c", "s">>, <<"s">>>>,
       length |-> 1]>>

\* str.startswith
StartsWith(name, unit) ==
    Len(unit) <= Len(name) /\ SubSeq(name, 1, Len(unit)) = unit

\* a _find_unit that takes a unit only when it is one of the names in full
_find_unit_exact(unit) ==
    LET hits == {i \in DOMAIN UNIT_TABLE :
                    \E j \in 1..3 : UNIT_TABLE[i].names[j] = unit}
    IN IF hits = {} THEN BadTimeExpr
       ELSE UNIT_TABLE[CHOOSE i \in hits : \A h \in hits : i <= h].length

\* _find_unit: the length of the first row one of whose names starts with unit
_find_unit(unit) ==
    LET hits == {i \in DOMAIN UNIT_TABLE :
                    \E j \in 1..3 : StartsWith(UNIT_TABLE[i].names[j], unit)}
    IN IF hits = {} THEN BadTimeExpr
       ELSE UNIT_TABLE[CHOOSE i \in hits : \A h \in hits : i <= h].length

\* '%d' % n, n >= 0
RECURSIVE Decimal(_)
Decimal(n) ==
    IF n < 10 THEN <<Digit[n + 1]>>
    ELSE Decimal(n \div 10) \o <<Digit[(n % 10) + 1]>>

\* int() of a text of digits
RECURSIVE Number(_)
Number(txt) ==
    IF txt = <<>> THEN 0
    ELSE 10 * Number(SubSeq(txt, 1, Len(txt) - 1)) + DigitVal(txt[Len(txt)])

\* str.rstrip('s')
RECURSIVE RStrip(_)
RStrip(txt) ==
    IF txt # <<>> /\ txt[Len(txt)] = "s" THEN RStrip(SubSeq(txt, 1, Len(txt) - 1))
    ELSE txt

\* sep.join(parts)
RECURSIVE Join(_, _)
Join(sep, parts) ==
    IF parts = <<>> THEN <<>>
    ELSE IF Len(parts) = 1 THEN parts[1]
    ELSE parts[1] \o sep \o Join(sep, Tail(parts))

\* the loop of _generate_timespec over UNIT_TABLE from row i on, long form
RECURSIVE Timespec(_, _)
Timespec(sec, i) ==
    IF i > Len(UNIT_TABLE) THEN <<>>
    ELSE LET n == sec \div UNIT_TABLE[i].length
             rest == sec % UNIT_TABLE[i].length
             text == Decimal(n) \o <<" ">> \o UNIT_TABLE[i].names[1]
         IN (IF n = 0 THEN <<>>
             ELSE IF n <= 1 THEN <<RStrip(text)>>
             ELSE <<text>>) \o Timespec(rest, i + 1)

\* _generate_timespec(sec) with short=False, micro=False
_generate_timespec(sec) ==
    LET neg == sec < 0
        timespec == Timespec(IF neg THEN -sec ELSE sec, 1)
        spec == IF Len(timespec) > 1
                THEN Join(<<" ", "a", "n", "d", " ">>,
                          <<Join(<<",", " ">>, SubSeq(timespec, 1, Len(timespec) - 1)),
                            timespec[Len(timespec)]>>)
                ELSE timespec[1]
    IN IF timespec = <<>> THEN <<"0">>
       ELSE IF neg THEN spec \o <<" ", "a", "g", "o">>
       ELSE spec

\* the character classes of the two patterns: \s, [\d.], [^\d\s,;], [^\d\s]
Matches(class, c) ==
    CASE class = "space" -> IsSpace(c)
      [] class = "num" -> IsDigit(c) \/ c = "."
      [] class = "unit" -> ~IsDigit(c) /\ ~IsSpace(c) /\ c \notin {",", ";"}
      [] class = "word" -> ~IsDigit(c) /\ ~IsSpace(c)

\* how far a greedy run of characters of a class goes from position i
RECURSIVE Run(_, _, _)
Run(txt, i, class) ==
    IF i <= Len(txt) /\ Matches(class, txt[i]) THEN Run(txt, i + 1, class) ELSE i

\* (?:[,;\s]|and)* from position i
RECURSIVE Separators(_, _)
Separators(txt, i) ==
    IF i <= Len(txt) /\ (IsSpace(txt[i]) \/ txt[i] \in {",", ";"})
    THEN Separators(txt, i + 1)
    ELSE IF i + 2 <= Len(txt) /\ SubSeq(txt, i, i + 2) = <<"a", "n", "d">>
    THEN Separators(txt, i + 3)
    ELSE i

\* re.split of _parse_time followed by filter(None, ...): the captured
\* groups and the text between the matches, from position i on; junk is the
\* text passed over since the last match
RECURSIVE Split(_, _, _)
Split(txt, i, junk) ==
    IF i > Len(txt) THEN (IF junk = <<>> THEN <<>> ELSE <<junk>>)
    ELSE LET b == Run(txt, i, "space") IN
         IF b <= Len(txt) /\ Matches("num", txt[b])
         THEN LET n == Run(txt, b, "num")
                  u == Run(txt, Run(txt, n, "space"), "unit")
              IN (IF junk = <<>> THEN <<>> ELSE <<junk>>)
                 \o <<SubSeq(txt, b, u - 1)>>
                 \o Split(txt, Separators(txt, u), <<>>)
         ELSE Split(txt, i + 1, Append(junk, txt[i]))

\* _timespec_sec: a number and a unit; the model knows whole numbers only and
\* takes anything else as a BadTimeExpr
_timespec_sec(expr) ==
    LET n == Run(expr, 1, "num")
        w == Run(expr, n, "space")
        u == Run(expr, w, "word")
        number == SubSeq(expr, 1, n - 1)
        unit == SubSeq(expr, w, u - 1)
        length == IF unit = <<>> THEN _find_unit(UNIT_TABLE[5].names[1])
                  ELSE _find_unit(unit)
    IN IF n = 1 \/ u <= Len(expr) THEN BadTimeExpr
       ELSE IF \E i \in DOMAIN number : ~IsDigit(number[i]) THEN BadTimeExpr
       ELSE IF length = BadTimeExpr THEN BadTimeExpr
       ELSE Number(number) * length

\* sum(map(_timespec_sec, ...)); a BadTimeExpr goes through
RECURSIVE SumSec(_)
SumSec(parts) ==
    IF parts = <<>> THEN 0
    ELSE LET a == _timespec_sec(Head(parts))
             b == SumSec(Tail(parts))
         IN IF a = BadTimeExpr \/ b = BadTimeExpr THEN BadTimeExpr ELSE a + b

\* _parse_time of a text in lower case
_parse_time(time) ==
    IF time # <<>> /\ \A i \in DOMAIN time : IsDigit(time[i]) THEN Number(time)
    ELSE SumSec(Split(time, 1, <<>>))

\* how many of each unit the durations tried are made of
Counts == {0, 1, 2, 11}

\* the durations tried, in seconds
Seconds ==
    {w * UNIT_TABLE[1].length + d * UNIT_TABLE[2].length + h * UNIT_TABLE[3].length
        + m * UNIT_TABLE[4].length + x :
        w \in Counts, d \in Counts, h \in Counts, m \in Counts, x \in Counts} \ {0}

\* a duration is given
TimeInit ==
    /\ now = TickStep
    /\ json = <<>>
    /\ roles = {}
    /\ present = Keys
    /\ enqueued = {}
    /\ pending = <<>>
    /\ heap = <<>>
    /\ loose = EmptyBag
    /\ up = TRUE
    /\ \E sec \in Seconds : last = Op("duration", NoKey, FALSE, sec, NoReason, {})
    /\ cancelled = {}
    /\ inflight = {}
    /\ voice = NoVoice

\* the duration is written out and the text is read back
render_parse ==
    /\ last.op = "duration"
    /\ last' = Op("timespec", NoKey, _parse_time(_generate_timespec(last.arg)),
                  last.arg, _generate_timespec(last.arg), {})
    /\ UNCHANGED <<now, json, roles, present, enqueued, pending, heap, loose, up,
                   cancelled, inflight, voice>>

TimeNext == render_parse

TimeSpec == TimeInit /\ [][TimeNext]_vars

(* ------------------- two servers, one may be gone ----------------------- *)

Guilds == {1, 2} \X Members

\* an on_load that skips a server the bot is no longer in and keeps its records
purge_skips(s, gone) == s

\* Punish.on_load, `if not server: del(self.json[serverid])`: gone are the
\* servers bot.get_server does not find
purge(s, gone) ==
    [s EXCEPT !.json = [k \in {x \in DOMAIN @ : x[1] \notin gone} |-> @[k]]]

InitGuilds ==
    /\ now = TickStep
    /\ json = <<>>
    /\ roles = {}
    /\ present = Guilds
    /\ enqueued = {}
    /\ pending = <<>>
    /\ heap = <<>>
    /\ loose = EmptyBag
    /\ up = TRUE
    /\ last = Op("init", NoKey, FALSE, None, NoReason, {})
    /\ cancelled = {}
    /\ inflight = {}
    /\ voice = NoVoice

\* the process starts while the bot has been removed from the servers gone:
\* their members are out of its sight, their records are purged, the records
\* of the other servers go through the pass
on_load_servers(gone) ==
    /\ ~up
    /\ up' = TRUE
    /\ LET s1 == purge([State EXCEPT !.present = {k \in @ : k[1] \notin gone}], gone)
           s2 == on_load_pass(s1, now, DOMAIN s1.json)
       IN /\ Commit(s2)
          /\ last' = OpOf("load", NoKey, TRUE, gone, NoReason, s2)
    /\ UNCHANGED <<now, cancelled, inflight, voice>>

PurgeNext ==
    \/ \E k \in Guilds, d \in Durations \cup {None} : _punish_cmd_common(k, d, NoReason)
    \/ \E k \in Guilds : TimerFires(k)
    \/ \E item \in BagToSet(loose) : LooseTimerFires(item)
    \/ QueueLoop
    \/ Shutdown
    \/ \E gone \in SUBSET {1, 2} : on_load_servers(gone)
    \/ Tick

PurgeSpec == InitGuilds /\ [][PurgeNext]_vars

(* --------------- the events of the bot's own role removal --------------- *)

\* the member update the platform sends when a remove_roles call of the
\* handler that took s to s2 has taken the role from k
Sent(s, s2, k) ==
    IF k \in s.roles /\ <<"remove_roles", k>> \in s2.calls
    THEN {[op |-> "member_update", key |-> k]}
    ELSE {}

\* Punish.on_member_update for an update that takes the role away
on_member_update_removed(s, k) ==
    IF k \in DOMAIN s.json THEN _unpunish(s, k, FALSE, FALSE) ELSE s

\* Punish.PE on a member with the role; the update is on its way
PE_sends(k) ==
    /\ up
    /\ k \in present
    /\ k \in roles
    /\ LET s2 == PE_effect(State, k) IN
       /\ Commit(s2)
       /\ cancelled' = Noted(State, k)
       /\ last' = Op("unpunish", k, CancelRet(State, k), None, NoReason, s2.calls)
       /\ inflight' = inflight \cup Sent(State, s2, k)
    /\ UNCHANGED <<now, up, voice>>

\* the timer of k runs the callback; the update is on its way
TimerFires_sends(k) ==
    /\ up
    /\ k \in DOMAIN pending
    /\ pending[k].live
    /\ now >= pending[k].due
    /\ LET s1 == [State EXCEPT !.pending[k].live = FALSE]
           e == Invoke(s1, k, pending[k].due, now, "timer")
       IN /\ Commit(e.st)
          /\ Fired(s1, k, e)
          /\ inflight' = inflight \cup Sent(s1, e.st, k)
    /\ UNCHANGED <<now, up, voice>>

\* the update reaches Punish.on_member_update
on_member_update_event ==
    \E c \in inflight :
        /\ c.op = "member_update"
        /\ up
        /\ LET s2 == on_member_update_removed(State, c.key) IN
           /\ Commit(s2)
           /\ cancelled' = IF c.key \in DOMAIN json THEN Noted(State, c.key) ELSE cancelled
           /\ last' = IF c.key \in DOMAIN json
                      THEN OpOf("roleremoved", c.key, CancelRet(State, c.key), None,
                                NoReason, s2)
                      ELSE Op("ignored", c.key, FALSE, None, NoReason, {})
        /\ inflight' = inflight \ {c}
        /\ UNCHANGED <<now, up, voice>>

\* punish, unpunish and expiry; the update of a removal arrives later
EventNext ==
    \/ \E k \in Keys, d \in Durations \cup {None} : _punish_cmd_common(k, d, NoReason)
    \/ \E k \in Keys : PE_sends(k)
    \/ \E k \in Keys : TimerFires_sends(k)
    \/ on_member_update_event
    \/ QueueLoop
    \/ \E item \in BagToSet(loose) : LooseTimerFires(item)
    \/ Tick

EventSpec == Init /\ [][EventNext]_vars

(* ----------------------- the process is killed ------------------------- *)

\* what the file holds: self.save() has written everything but the record a
\* punish that waits for add_roles has stored in memory
OnDisk ==
    IF \E c \in inflight : c.op = "punish"
    THEN (CHOOSE c \in inflight : c.op = "punish").s0.json
    ELSE json

\* the process is killed: no __unload, the memory is lost, the file stays
Crash ==
    /\ up
    /\ up' = FALSE
    /\ json' = OnDisk
    /\ enqueued' = {}
    /\ pending' = <<>>
    /\ heap' = <<>>
    /\ loose' = EmptyBag
    /\ cancelled' = {}
    /\ inflight' = {}
    /\ last' = Op("crash", NoKey, inflight # {}, None, NoReason, {})
    /\ UNCHANGED <<now, roles, present, voice>>

\* punish in two steps, the process may be killed at any time and starts again
CrashNext ==
    \/ \E k \in Keys, d \in Durations \cup {None} : PunishBegin(k, d, NoReason)
    \/ PunishEnd
    \/ \E k \in Keys : inflight = {} /\ TimerFires(k)
    \/ \E item \in BagToSet(loose) : inflight = {} /\ LooseTimerFires(item)
    \/ inflight = {} /\ QueueLoop
    \/ Crash
    \/ on_load
    \/ Tick

CrashSpec == Init /\ [][CrashNext]_vars

(* ------------------------------ voice ---------------------------------- *)

\* DEFAULT_VOICE_OVERWRITE is PermissionOverwrite(speak=False)
overwrite_denies_speak == TRUE

\* the voice part of a handler's result: the voice state and the calls of
\* bot.server_voice_state it made
Voice(v, calls) == [v |-> v, calls |-> calls]

\* Punish._punish_cmd_common, the voice part: 'unmute' of the record (830) and
\* the mute of a member in a voice channel (836-837); current tells whether
\* the member had a record; owed notes what the first punish recorded
punish_voice(v, k, current) ==
    LET flag == overwrite_denies_speak /\ k \notin v.mute
        muting == k \in v.channel /\ overwrite_denies_speak
    IN Voice([v EXCEPT !.unmute = IF flag THEN @ \cup {k} ELSE @ \ {k},
                       !.owed = IF current THEN @
                                ELSE IF flag THEN @ \cup {k} ELSE @ \ {k},
                       !.mute = IF muting THEN @ \cup {k} ELSE @],
             IF muting THEN {<<"mute", k>>} ELSE {})

\* Punish._unpunish, the voice part (912-923); the record and its 'unmute'
\* are gone (889)
_unpunish_voice(v, k) ==
    LET v1 == [v EXCEPT !.unmute = @ \ {k}, !.owed = @ \ {k}] IN
    IF k \in v.unmute
    THEN IF k \in v.channel
         THEN Voice([v1 EXCEPT !.mute = @ \ {k}], {<<"unmute", k>>})
         ELSE Voice([v1 EXCEPT !.pending_unmute = @ \cup {k}], {})
    ELSE Voice(v1, {})

\* Punish.on_voice_state_update for the member of k; member_data tells
\* whether the member has a record
on_voice_state_update(v, k, member_data) ==
    IF k \notin v.channel THEN Voice(v, {})
    ELSE IF member_data /\ k \notin v.mute
    THEN Voice([v EXCEPT !.mute = @ \cup {k}], {<<"mute", k>>})
    ELSE IF k \in v.pending_unmute
    THEN Voice([v EXCEPT !.mute = @ \ {k}, !.pending_unmute = @ \ {k}], {<<"unmute", k>>})
    ELSE Voice(v, {})

\* punish of a member who may be in a voice channel
VoicePunish(k, d) ==
    /\ up
    /\ k \in present
    /\ LET until == Until(now, d)
           s2 == punish_end(punish_begin(State, k, now, until, NoReason), k, now, until)
           w == punish_voice(voice, k, k \in DOMAIN json)
       IN /\ Commit(s2)
          /\ voice' = w.v
          /\ cancelled' = IF until # None THEN cancelled \ {k} ELSE cancelled
          /\ last' = Op("punish", k, k \in DOMAIN json, d, NoReason, s2.calls \cup w.calls)
    /\ UNCHANGED <<now, up, inflight>>

\* Punish.PE on a member with the role
VoicePE(k) ==
    /\ up
    /\ k \in present
    /\ k \in roles
    /\ LET s2 == PE_effect(State, k)
           w == _unpunish_voice(voice, k)
       IN /\ Commit(s2)
          /\ voice' = w.v
          /\ cancelled' = Noted(State, k)
          /\ last' = Op("unpunish", k, CancelRet(State, k), None, NoReason,
                        s2.calls \cup w.calls)
    /\ UNCHANGED <<now, up, inflight>>

\* the timer of k runs the callback
VoiceTimerFires(k) ==
    /\ up
    /\ k \in DOMAIN pending
    /\ pending[k].live
    /\ now >= pending[k].due
    /\ LET s1 == [State EXCEPT !.pending[k].live = FALSE]
           e == Invoke(s1, k, pending[k].due, now, "timer")
           w == IF e.ret THEN _unpunish_voice(voice, k) ELSE Voice(voice, {})
       IN /\ Commit(e.st)
          /\ voice' = w.v
          /\ cancelled' = IF k \in s1.present
                          THEN Noted([s1 EXCEPT !.enqueued = @ \ {k}], k)
                          ELSE cancelled
          /\ last' = [OpOf("fire", k, e.ret, None, NoReason, e.st)
                         EXCEPT !.calls = @ \cup w.calls]
    /\ UNCHANGED <<now, up, inflight>>

\* the member joins a voice channel, or something else about the member's
\* voice state changes; then Punish.on_voice_state_update
VoiceUpdate(k, joins) ==
    /\ up
    /\ k \in present
    /\ joins <=> k \notin voice.channel
    /\ LET w == on_voice_state_update([voice EXCEPT !.channel = @ \cup {k}], k,
                                      k \in DOMAIN json)
       IN /\ voice' = w.v
          /\ last' = Op("voice", k, joins, None, NoReason, w.calls)
    /\ UNCHANGED <<now, json, roles, present, enqueued, pending, heap, loose, up,
                   cancelled, inflight>>

\* the member leaves the voice channel; the handler returns at once (996)
VoiceLeave(k) ==
    /\ up
    /\ k \in voice.channel
    /\ LET w == on_voice_state_update([voice EXCEPT !.channel = @ \ {k}], k,
                                      k \in DOMAIN json)
       IN /\ voice' = w.v
          /\ last' = Op("voiceleft", k, FALSE, None, NoReason, w.calls)
    /\ UNCHANGED <<now, json, roles, present, enqueued, pending, heap, loose, up,
                   cancelled, inflight>>

\* punishments that end by command or by their timer, members who come and
\* go in voice channels
VoiceNext ==
    \/ \E k \in Keys, d \in {10, None} : VoicePunish(k, d)
    \/ \E k \in Keys : VoicePE(k)
    \/ \E k \in Keys : VoiceTimerFires(k)
    \/ \E k \in Keys, joins \in BOOLEAN : VoiceUpdate(k, joins)
    \/ \E k \in Keys : VoiceLeave(k)
    \/ Tick

VoiceSpec == Init /\ [][VoiceNext]_vars

(* ------------------------------- claims -------------------------------- *)

HasRecord(k) == k \in DOMAIN json

Timed(k) == HasRecord(k) /\ json[k].until # None

\* the record of k is timed and its until has passed
Overdue(k) == Timed(k) /\ json[k].until <= now

\* the step is operation op on k
Ran(op, k) == last'.op = op /\ last'.key = k

\* C1: when punish with a finite duration d has completed, the record of the
\* member exists with until = now + d + 0.5 s, the member carries the role and
\* exactly one live scheduler entry exists for the member, whatever ran before.
C1_PunishArmsOneEntry ==
    \A k \in Keys :
        (last.op = "punish" /\ last.key = k /\ last.arg # None) =>
            /\ HasRecord(k)
            /\ json[k].until = now + Sec(last.arg) + PAD
            /\ k \in roles
            /\ LiveOf(State, k) = 1

\* C2: under fairness of the timers, of the loop and of the clock, a timed
\* record whose until has passed does not stay overdue for ever while the
\* member is in the server and the process runs: it is expired (or renewed,
\* or the member leaves, or the process stops).
\* The clock stops at MaxTime, so the cases are those where every entry armed
\* so far comes due before that.
C2_OverdueIsExpired ==
    \A k \in Keys :
        []((up /\ Overdue(k) /\ k \in present /\ now + 2 * TickStep <= MaxTime)
            => <>(~Overdue(k) \/ k \notin present \/ ~up))

\* C3: a fire for a key whose record is missing, renewed to a later until or
\* indefinite changes neither the records nor the roles.
C3_StaleFireIgnored ==
    [][\A k \in Keys :
        (Ran("fire", k) /\ ~Overdue(k)) => (json' = json /\ roles' = roles)]_vars

\* C4: when punish renews with a finite duration a member who already has a
\* live entry, exactly one live entry remains and it is due at the new until.
C4_RearmLaterDueWins ==
    [][\A k \in Keys :
        (Ran("punish", k) /\ last'.arg # None /\ LiveOf(State, k) >= 1) =>
            (LiveOf(State, k)' = 1 /\ LiveDue(State, k)' = {json'[k].until})]_vars

\* C5: when punish renews a timed punishment to indefinite, no live entry for
\* the member remains, and no fire ever removes an indefinite record.
C5_IndefiniteCancelsEntry ==
    [][\A k \in Keys :
        /\ (Ran("punish", k) /\ last'.arg = None /\ Timed(k)) => LiveOf(State, k)' = 0
        /\ (Ran("fire", k) /\ HasRecord(k) /\ json[k].until = None) => HasRecord(k)']_vars

\* C6: after a cancel for k returned True, the callback does not run for k
\* unless k was scheduled again since.
C6_CancelledNeverFires ==
    [][\A k \in Keys : Ran("fire", k) => k \notin cancelled]_vars

\* the operations that call cancel_queue_event on the scheduler as it stands
Cancels(k) == Ran("unpunish", k) \/ Ran("roleremoved", k) \/ Ran("ban", k)

\* C7: cancel returns True exactly when a live entry for the key existed, and
\* after it no live entry for the key remains in either tier.
C7_CancelRemovesAndReports ==
    [][\A k \in Keys :
        Cancels(k) => /\ last'.ret = (LiveOf(State, k) >= 1)
                      /\ LiveOf(State, k)' = 0]_vars

\* the operations that call schedule_unpunish
Schedules(k) == (Ran("punish", k) /\ last'.arg # None) \/ Ran("rejoin", k)

\* C8: schedule leaves the scheduler as it is exactly when the key has a live
\* entry, and inserts an entry for the key whenever it has none.
C8_ScheduleNoOpIffLive ==
    [][\A k \in Keys :
        Schedules(k) =>
            IF LiveOf(State, k) >= 1
            THEN UNCHANGED <<enqueued, pending, heap, loose>>
            ELSE LiveOf(State, k)' = 1]_vars

\* C9: at most one live scheduler entry per key, timers and queue items
\* counted together.
C9_AtMostOneEntry == \A k \in Keys : LiveOf(State, k) <= 1

\* C10: a live scheduler entry exists for a key exactly when the key has a
\* record with a non-null until.
C10_RecordIffEntry == \A k \in Keys : (LiveOf(State, k) >= 1) <=> Timed(k)

\* C11: with no role edit by hand, while the process runs a member in the
\* server has a record exactly when the member carries the role.
C11_RecordIffRole ==
    \A k \in Keys : (up /\ k \in present) => (HasRecord(k) <=> k \in roles)

\* the until a punish with duration argument d computes at the current time
UntilOf(d) == IF d = None THEN None ELSE now + Sec(d) + PAD

\* C12 as stated: a renewal keeps start, replaces until by the value of the
\* new duration and replaces reason by the reason passed, whatever it is.
C12_RenewalReplacesReason ==
    [][\A k \in Keys :
        (Ran("punish", k) /\ HasRecord(k)) =>
            /\ json'[k].start = json[k].start
            /\ json'[k].until = UntilOf(last'.arg)
            /\ json'[k].reason = last'.why]_vars

\* C12 amended: a renewal keeps start, replaces until by the value of the new
\* duration, replaces reason by the reason passed when one is passed and
\* keeps the stored reason when none is.
C12_RenewalKeepsStart ==
    [][\A k \in Keys :
        (Ran("punish", k) /\ HasRecord(k)) =>
            /\ json'[k].start = json[k].start
            /\ json'[k].until = UntilOf(last'.arg)
            /\ json'[k].reason = IF last'.why # NoReason THEN last'.why
                                 ELSE json[k].reason]_vars

\* a renewal without a reason, later than the start, of a record with a reason
C12_Renewed ==
    \E k \in Keys :
        /\ last.op = "punish" /\ last.key = k /\ last.why = NoReason
        /\ HasRecord(k) /\ json[k].start < now /\ json[k].reason # NoReason
        /\ json[k].until = UntilOf(last.arg)

\* C13: after unpunish on a member with a record and the role, the record is
\* gone, the role is gone and no live scheduler entry for the member remains.
C13_UnpunishClearsAll ==
    [][\A k \in Keys :
        (Ran("unpunish", k) /\ HasRecord(k) /\ k \in roles) =>
            (~HasRecord(k)' /\ k \notin roles' /\ LiveOf(State, k)' = 0)]_vars

\* the step is the command PE on k
RanPE(k) == Ran("unpunish", k) \/ Ran("dropdata", k) \/ Ran("norole", k)

\* C14 as stated: unpunish on a member with no record makes no platform call,
\* whether or not the member carries the role.
C14_NoRecordNoCalls ==
    [][\A k \in Keys :
        (RanPE(k) /\ ~HasRecord(k)) => (last'.calls = {} /\ roles' = roles)]_vars

\* C14 amended: unpunish on a member with no record and without the role
\* makes no platform call and changes nothing; on a member with no record who
\* carries the role it removes the role and messages the member.
C14_NoRecordFollowsRole ==
    [][\A k \in Keys :
        (RanPE(k) /\ ~HasRecord(k)) =>
            IF k \in roles
            THEN /\ last'.calls = {<<"remove_roles", k>>, <<"send_message", k>>}
                 /\ k \notin roles'
                 /\ json' = json
            ELSE /\ last'.calls = {}
                 /\ UNCHANGED <<json, roles, enqueued, pending, heap, loose>>]_vars

\* unpunish has just run on a member with neither record nor role
C14_NothingToDo ==
    \E k \in Keys :
        last.op = "norole" /\ last.key = k /\ ~HasRecord(k) /\ k \notin roles

\* the step is on_member_join on k with the cog loaded
Joins(k) == up /\ (Ran("rejoin", k) \/ Ran("join", k))

\* C15: when a member with a record rejoins, the role is re-applied and, for a
\* timed record, the scheduler re-armed, also when until is None.
C15_RejoinRestoresRole ==
    [][\A k \in Keys :
        (Joins(k) /\ HasRecord(k)) =>
            (k \in roles' /\ (Timed(k) => LiveOf(State, k)' >= 1))]_vars

\* C16: when a member with a record is banned, the record is deleted and its
\* scheduler entry cancelled, with no role removal and no message to the member.
C16_BanDeletesQuietly ==
    [][\A k \in Keys :
        Ran("ban", k) =>
            /\ ~HasRecord(k)'
            /\ LiveOf(State, k)' = 0
            /\ last'.calls = {}]_vars

\* C17: when the role is removed by hand from a member with a record, the
\* record is deleted and the scheduler entry cancelled, with no role removal
\* by the cog.
C17_RoleRemovedCleansUp ==
    [][\A k \in Keys :
        Ran("roleremoved", k) =>
            /\ ~HasRecord(k)'
            /\ LiveOf(State, k)' = 0
            /\ <<"remove_roles", k>> \notin last'.calls]_vars

\* C18: when the role is added by hand to a member without a record, the
\* handler leaves the records and the scheduler as they are.
C18_RoleAddedNotTracked ==
    [][\A k \in Keys :
        (Ran("roleedit", k) /\ up /\ k \notin roles /\ ~HasRecord(k)) =>
            UNCHANGED <<json, enqueued, pending, heap, loose>>]_vars

\* the role was just added by hand to a member without a record
C18_RoleAdded ==
    \E k \in Keys :
        last.op = "roleedit" /\ last.key = k /\ up /\ k \in roles /\ ~HasRecord(k)

\* the step is the startup pass of on_load
Loads == last'.op = "load"

\* the record of k is timed and its until is in the past
Past(k) == Timed(k) /\ json[k].until - now < 0

\* C19: the startup pass expires every record whose until is in the past:
\* the record is deleted and the member, if in the server, loses the role.
C19_StartupExpiresOverdue ==
    [][Loads => \A k \in Keys : Past(k) => (~HasRecord(k)' /\ k \notin roles')]_vars

\* the startup pass has just expired the record of a member in the server
C19_ExpiredAtStartup ==
    \E k \in Keys :
        /\ last.op = "load" /\ <<"remove_roles", k>> \in last.calls
        /\ k \in present /\ ~HasRecord(k) /\ k \notin roles

C21_StartupDropsAbsent ==
    [][Loads => \A k \in Keys : k \notin present => ~HasRecord(k)']_vars

\* C21, as the code has it: the startup pass deletes the record of a member
\* who is not in the server when its until is in the past, and keeps it as it
\* is when it is still active (on_member_join restores the punishment when
\* the member comes back).
C21_StartupKeepsActiveAbsent ==
    [][Loads => \A k \in Keys :
        (k \notin present /\ HasRecord(k)) =>
            IF Past(k) THEN ~HasRecord(k)'
            ELSE HasRecord(k)' /\ json'[k] = json[k]]_vars

\* the startup pass has just left the active record of a member who is gone
C21_AbsentRecordKept ==
    \E k \in Keys :
        last.op = "load" /\ k \notin present /\ HasRecord(k) /\ ~Past(k)

\* C30: every record with an until has until strictly after start, renewals
\* included.
C30_UntilAfterStart ==
    \A k \in Keys : Timed(k) => json[k].until > json[k].start

\* a timed record has just been renewed at a later time than its start
C30_RenewedLater ==
    \E k \in Keys :
        last.op = "punish" /\ last.key = k /\ Timed(k) /\ json[k].start < now

\* how many times item is in the queue q
ItemCount(q, item) == Cardinality({i \in DOMAIN q : q[i] = item})

\* C27: an entry fires at most once: when the loop runs the callback of a
\* queue item, the item leaves the queue for good, whatever the callback
\* returns.
C27_FiredItemLeavesQueue ==
    [][\A f \in last'.fired :
        f.tier = "queue" =>
            ItemCount(heap', <<f.due, f.key[1], f.key[2]>>)
                < ItemCount(heap, <<f.due, f.key[1], f.key[2]>>)]_vars

\* C24: when bot.add_roles fails during punish, no record is left without
\* the role and no scheduler entry is added.
C24_FailedPunishLeavesNoRecord ==
    [][\A k \in Keys :
        Ran("addfailed", k) =>
            /\ HasRecord(k)' => k \in roles'
            /\ UNCHANGED <<enqueued, pending, heap, loose>>]_vars

\* C25: a punish request that is refused leaves the record, the role and the
\* scheduler entry of the member as they are.
C25_RefusedChangesNothing ==
    [][\A k \in Keys :
        Ran("refused", k) => UNCHANGED <<json, roles, enqueued, pending, heap, loose>>]_vars

\* the renewal of a punishment has just been refused: the member has a
\* record, the role and one live entry
C25_RenewalRefused ==
    \E k \in Keys :
        /\ last.op = "refused" /\ last.key = k /\ last.why = "rolehigh"
        /\ Timed(k) /\ k \in roles /\ LiveOf(State, k) = 1

\* what a serial order is compared on: the record, the role and the live
\* entries of k
View(s, k) ==
    [rec |-> {s.json[x] : x \in DOMAIN s.json \cap {k}},
     role |-> k \in s.roles,
     due |-> LiveDue(s, k),
     entries |-> LiveOf(s, k)]

\* the timer of k due at `due` fires on s at time t
FireOf(s, k, due, t) ==
    IF k \in DOMAIN s.pending /\ s.pending[k].live /\ s.pending[k].due = due
    THEN Invoke([s EXCEPT !.pending[k].live = FALSE], k, due, t, "timer").st
    ELSE IF <<due, k[1], k[2]>> \in BagToSet(s.loose)
    THEN Invoke([s EXCEPT !.loose = @ (-) SetToBag({<<due, k[1], k[2]>>})], k, due, t, "timer").st
    ELSE s

\* the whole of the punish c on s, without a suspension
Whole(c, s) ==
    punish_end(punish_begin(s, c.key, c.t0, c.until, c.r), c.key, c.t0, c.until)

\* what the handler that ran while the punish c was suspended does to s
Other(c, s) ==
    IF last.op = "fire"
    THEN FireOf(s, c.key, (CHOOSE f \in last.fired : TRUE).due, c.t0)
    ELSE PE_effect(s, c.key)

\* C23: operations on one key are serialized: when a punish has been
\* suspended at add_roles and an unpunish or an expiration of the same key
\* has run meanwhile, the record, the role and the entries of the key end as
\* some serial order of the two operations leaves them.
C23_PunishSerializable ==
    [][\A c \in inflight :
        (c.op = "punish" /\ last'.op = "punish" /\ now = c.t0
            /\ last.op \in {"fire", "unpunish", "dropdata", "norole"}) =>
                View(State, c.key)' \in {View(Other(c, Whole(c, c.s0)), c.key),
                                         View(Whole(c, Other(c, c.s0)), c.key)}]_vars

\* C26: the scheduler never runs the callback of an entry before the due
\* time of that entry, from whichever tier it runs it: at once in
\* put_queue_event, from a timer, or from the queue.
C26_NeverBeforeDue ==
    \A f \in last.fired : f.due <= f.at

\* the loop has just run the callback of a queue item that was overdue
C26_FiredFromQueue ==
    \E f \in last.fired : f.tier = "queue" /\ f.due < f.at /\ f.at = now

\* put_queue_event has just run the callback at once, for a due time that
\* had passed while punish was waiting for add_roles
C26_FiredAtOnce ==
    \E f \in last.fired : f.tier = "now" /\ f.due < f.at /\ last.op = "punish"

\* a timer has just run the callback
C26_FiredFromTimer ==
    \E f \in last.fired : f.tier = "timer" /\ f.due <= f.at /\ last.op = "fire"

\* the pass of on_load still has a record to handle
PassHasWork == \E c \in inflight : c.op = "load" /\ c.todo # {}

\* C22: no scheduler callback runs before the startup pass has been over
\* all the records.
C22_NoCallbackDuringPass ==
    [][last'.fired # {} => ~PassHasWork]_vars

\* the step is a call of process_queue_event by the loop
LoopRuns ==
    \/ last'.op = "loop"
    \/ last'.op = "fire" /\ \E f \in last'.fired : f.tier = "queue"

\* C22, as the code has it: the loop that promotes and fires queue items
\* does not run before the startup pass is over (a timer the pass has armed
\* can fire while the pass is at a later record).
C22_NoLoopDuringPass ==
    [][LoopRuns => ~Loading]_vars

\* the pass has put an item in the queue that is overdue by now and it still
\* has a record to handle
C22_QueuedDuringPass ==
    /\ PassHasWork
    /\ heap # <<>>
    /\ Head(heap)[1] - now < 0

\* a timer armed by the pass has fired while the pass has a record to handle
C22_TimerFiredDuringPass ==
    /\ PassHasWork
    /\ last.op = "fire"

\* the queue holds an item of k that is overdue or due within the cutoff
DueInQueue(k) ==
    \E i \in DOMAIN heap :
        ItemKey(heap[i]) = k /\ heap[i][1] - now < Sec(QUEUE_TIME_CUTOFF)

\* the scheduler has just run the callback of k
CallbackRan(k) == \E f \in last.fired : f.key = k

\* C28: with the loop running, every queue item that is overdue or due
\* within the cutoff is in the end promoted to a timer or fired, whatever
\* else is in the queue.
C28_DueItemIsServed ==
    \A k \in Pair : DueInQueue(k) ~> (~DueInQueue(k) \/ CallbackRan(k))

\* C29: an exception of the callback does not stop the loop: after the
\* callback of one key has raised, a queue item of another key that is
\* overdue or due within the cutoff is still promoted or fired in the end.
C29_RaiseDoesNotStopLoop ==
    \A k \in Pair :
        [](last.op = "raise" /\ last.key # k /\ DueInQueue(k)
            => <>(~DueInQueue(k) \/ CallbackRan(k)))

\* C35: the dedup guard agrees with the live entries: a key is in
\* self.enqueued exactly when it has a live entry, and self.pending holds no
\* handle of a timer that has fired.
C35_GuardIffLive ==
    \A k \in Keys :
        /\ k \in enqueued <=> LiveOf(State, k) > 0
        /\ k \in DOMAIN pending => pending[k].live

\* C31: right after a cancel_queue_event(k) that returned True, another
\* cancel_queue_event(k) returns False and changes nothing in the scheduler.
C31_SecondCancelIsNoOp ==
    \A k \in Keys :
        last.op \in {"unpunish", "roleremoved", "ban"} /\ last.key = k /\ last.ret
            => LET c == cancel_queue_event(State, k) IN
               ~c.ret /\ c.st = State

\* C34: an entry that is scheduled (its key not in the guard) is run at once
\* when its due time has passed, armed as a timer when it is due inside the
\* cutoff, and put in the queue otherwise; the loop arms a timer for the
\* first queue item exactly when the item is due inside the cutoff and is not
\* overdue, and leaves an item that is further away where it is.
C34_TierPlacement ==
    [][/\ \A c \in inflight :
            c.op = "punish" /\ Ran("punish", c.key) /\ c.until # None
                            /\ c.key \notin enqueued
            => LET k == c.key
                   diff == c.until - now
               IN IF diff < 0
                  THEN /\ \E f \in last'.fired : f.key = k /\ f.tier = "now"
                       /\ heap' = heap /\ loose' = loose
                  ELSE IF diff < Sec(QUEUE_TIME_CUTOFF)
                  THEN /\ k \in DOMAIN pending'
                       /\ pending'[k] = [due |-> c.until, live |-> TRUE]
                       /\ heap' = heap /\ last'.fired = {}
                  ELSE /\ heap' = HeapPut(heap, <<c.until, k[1], k[2]>>)
                       /\ pending' = pending /\ loose' = loose
                       /\ last'.fired = {}
       /\ heap # <<>> /\ (last'.op = "loop" \/ \E f \in last'.fired : f.tier = "queue")
            => LET item == Head(heap)
                   diff == item[1] - now
               IN IF diff < 0 THEN loose' = loose
                  ELSE IF diff < Sec(QUEUE_TIME_CUTOFF)
                  THEN loose' = loose (+) SetToBag({item}) /\ heap' = Tail(heap)
                  ELSE loose' = loose /\ heap' = heap]_vars

\* the loop has taken an item out of the queue and armed its timer
C34_PromotedInsideCutoff ==
    /\ last.op = "loop" /\ last.ret
    /\ \E item \in BagToSet(loose) :
           ItemKey(item) = last.key /\ item[1] - now < Sec(QUEUE_TIME_CUTOFF)
                                    /\ item[1] - now >= 0

\* a punishment was put in the queue because it is due beyond the cutoff
C34_PlacedInQueue ==
    /\ last.op = "punish" /\ heap # <<>>
    /\ \E i \in DOMAIN heap : ItemKey(heap[i]) = last.key
                              /\ heap[i][1] - now >= Sec(QUEUE_TIME_CUTOFF)

\* a punishment was armed as a timer because it is due inside the cutoff
C34_PlacedAsTimer ==
    /\ last.op = "punish" /\ last.key \in DOMAIN pending
    /\ pending[last.key].live
    /\ pending[last.key].due - now < Sec(QUEUE_TIME_CUTOFF)

\* what the scheduler holds for j: the handle in self.pending, the queue
\* items in their order, the armed timers self.pending does not hold
EntriesOf(s, j) ==
    [pending |-> IF j \in DOMAIN s.pending THEN {s.pending[j]} ELSE {},
     heap |-> SelectSeq(s.heap, LAMBDA item : ItemKey(item) = j),
     loose |-> {<<item, s.loose[item]>> :
                   item \in {x \in BagToSet(s.loose) : ItemKey(x) = j}}]

\* C36: an operation that calls cancel_queue_event for k leaves the entries
\* of every other key as they were: the same handle in self.pending, the same
\* queue items with the same due times, the same armed timers.
C36_CancelSparesOtherKeys ==
    [][\A k \in Pair :
        Cancels(k) =>
            \A j \in Pair \ {k} : EntriesOf(State, j)' = EntriesOf(State, j)]_vars

\* an unpunish has cancelled the entry of the second member while an item of
\* the first member stays in the queue
C36_OtherItemStillQueued ==
    /\ last.op = "unpunish" /\ last.ret /\ last.key = <<1, 2>>
    /\ \E i \in DOMAIN heap : ItemKey(heap[i]) = <<1, 1>>
    /\ LiveOf(State, <<1, 2>>) = 0

\* C32: a positive number of seconds written by _generate_timespec in the
\* long form is read back by _parse_time as the same number.
C32_RenderParseRoundTrip ==
    last.op = "timespec" /\ last.arg > 0 => last.ret = last.arg

\* a duration of several units, one of them in the singular, went through
C32_SeveralUnits ==
    /\ last.op = "timespec"
    /\ last.arg = UNIT_TABLE[1].length + 2 * UNIT_TABLE[3].length + 11
    /\ last.why = _generate_timespec(last.arg)
    /\ Len(Split(last.why, 1, <<>>)) = 3
    /\ last.ret = last.arg

\* C33: after the pass of on_load no record is left for a server the bot is
\* no longer in, and the record of a member of a server it is still in is
\* kept as it was unless its until has passed.
C33_PurgeOnlyGoneServers ==
    [][last'.op = "load" /\ ~up =>
        /\ \A k \in DOMAIN json' : k[1] \notin last'.arg
        /\ \A k \in DOMAIN json :
              k[1] \notin last'.arg /\ ~(json[k].until # None /\ json[k].until - now < 0)
              => k \in DOMAIN json' /\ json'[k] = json[k]]_vars

\* a start has purged the records of one server and kept the record of the other
C33_OneServerPurged ==
    /\ last.op = "load" /\ last.arg = {2}
    /\ <<1, 1>> \in DOMAIN json
    /\ <<2, 1>> \in roles /\ <<2, 1>> \notin DOMAIN json

\* C37: the member update that follows a role removal by the bot itself
\* (unpunish or expiry) finds no record: the handler changes nothing, cancels
\* nothing and makes no call.
C37_OwnRemovalNoSecondCleanup ==
    [][\A c \in inflight :
        c.op = "member_update" /\ c \notin inflight'
        => /\ last'.op = "ignored"
           /\ json' = json
           /\ \A k \in Keys : LiveDue(State, k)' = LiveDue(State, k)]_vars

\* C38: when the process has been killed and has started again, every member
\* who carries the role has a record.
C38_RoleHasRecordAfterCrash ==
    up /\ last.op = "load" => \A k \in Keys : k \in roles => HasRecord(k)

\* C39: when the first punish of a member recorded that an unmute is owed,
\* the unpunish or expiry that ends the punishment, after any renewals,
\* unmutes a member who is in a voice channel and puts a member who is not
\* in one on the pending-unmute list.
C39_OwedUnmuteSurvivesRenewal ==
    [][\A k \in Keys :
        (Ran("unpunish", k) \/ (Ran("fire", k) /\ last'.ret)) /\ k \in voice.owed
        => IF k \in voice.channel
           THEN <<"unmute", k>> \in last'.calls /\ k \notin voice'.mute
           ELSE k \in voice'.pending_unmute]_vars

\* C40: on_voice_state_update makes no unmute call for a member who has a
\* record, whether or not the member is on the pending-unmute list; a member
\* it unmutes has no record and is off the list afterwards.
C40_NoUnmuteWhileRecord ==
    [][\A k \in Keys :
        (Ran("voice", k) \/ Ran("voiceleft", k)) /\ <<"unmute", k>> \in last'.calls
        => ~HasRecord(k) /\ k \notin voice'.pending_unmute]_vars

====
